---- MODULE Spec2Model ----
(***************************************************************************)
(* Workflow execution engine of the Sweet Design Hub backend:              *)
(*   - validateExecutionOrder (utils/validation.ts), the Kahn scheduler;   *)
(*   - WorkflowExecutionService (executeWorkflow, executeNode,             *)
(*     getNodeInputData, cancelExecution);                                 *)
(*   - the workflow_executions / node_executions tables written through    *)
(*     the SQL statements of the service.                                  *)
(* One action is one resumption of an async function: the statement or     *)
(* capability call it was awaiting takes effect, then the synchronous code *)
(* up to the next await runs.                                              *)
(***************************************************************************)
EXTENDS Naturals, Integers, Sequences, FiniteSets, TLC

\* ------------------------------------------------------------------ bounds
MaxNodes == 3
MaxEdges == 2
MaxSchedEdges == 3
MaxRunNodes == 2
MaxRunEdges == 1
MaxCycleEdges == 4
MaxValNodes == 4
MaxValIds == 2
MaxValSteps == 2
MaxValEdges == 2

\* ------------------------------------------------------------------ values
Ids == 1..MaxNodes
Runs == {1, 2}

\* node.type values: the four cases of the dispatch switch; the types of the
\* steps of the workflows that are run
\* a switch with a case for every stored type
EveryTypeDispatched == {"database", "ai", "transform", "output", "webhook"}
RegisteredTypes == {"database", "ai", "transform", "output"}
TypeChoices == {"transform"}
\* node.type values as they can be stored: one of the four, or any other string
StoredTypes == {"transform", "webhook"}

\* JSON payloads, as far as the engine looks at them: "request" and "rows" are
\* non-empty objects, "zero" is a falsy scalar (0, "", false); "null" and
\* "undefined" are the values of fields that were never set
InputValues == {"request"}
OutputValues == {"zero", "rows"}

\* error.message values; node is the step the message names (0: none)
NoMessage == [text |-> "none", node |-> 0]
CyclesMessage == [text |-> "Workflow contains cycles or invalid dependencies", node |-> 0]
NotFoundMessage(id) == [text |-> "Node not found in workflow", node |-> id]
UnknownTypeMessage(id) == [text |-> "Unknown node type", node |-> id]
CapabilityMessage(id) == [text |-> "capability failed", node |-> id]

VARIABLES
  nodes,               \* workflow.config.nodes: sequence of [id, type]
  edges,               \* workflow.config.edges: sequence of [source, target]
  schedResult,         \* value returned by a direct call of validateExecutionOrder
  cycles,              \* value returned by a direct call of detectCycles
  validation,          \* value returned by a direct call of a validator
  inputData,           \* per run: the caller-supplied input
  pc,                  \* per run: the await the run is suspended at
  execution,           \* per run: the WorkflowExecution object that is returned
  executionOrder,      \* per run: the local executionOrder
  idx,                 \* per run: position of the for-of loop in executionOrder
  context,             \* per run: the ExecutionContext
  nodeExecution,       \* per run: the NodeExecution object of the running executeNode
  pending,             \* per run: effective input, capability result, caught error
  workflow_executions, \* table workflow_executions, one row per run id
  node_executions,     \* table node_executions, rows in insertion order
  delivered,           \* the capability calls made so far: [run, node_id, input]
  cancelPc,            \* per run: the await the cancel handler is suspended at
  cancelResponse       \* per run: the last response of the cancel handler

vars == <<nodes, edges, schedResult, cycles, validation, inputData, pc, execution, executionOrder,
          idx, context, nodeExecution, pending, workflow_executions,
          node_executions, delivered, cancelPc, cancelResponse>>

\* ------------------------------------------------------------- sequences
Range(s) == {s[i] : i \in 1..Len(s)}

SeqsUpTo(S, n) == UNION {[1..k -> S] : k \in 0..n}

IsInjective(s) == \A i, j \in 1..Len(s) : s[i] = s[j] => i = j

NodeIds(ns) == [i \in 1..Len(ns) |-> ns[i].id]

\* ------------------------------------------------ validateExecutionOrder
\* keys of a Map after inserting the ids of s in order (insertion order,
\* a repeated set() keeps the key's first position)
RECURSIVE MapKeys(_, _)
MapKeys(keys, s) ==
  IF s = <<>> THEN keys
  ELSE MapKeys(IF Head(s) \in Range(keys) THEN keys ELSE Append(keys, Head(s)),
               Tail(s))

\* adjacencyList.get(s): the targets of the edges leaving s, in edge order
RECURSIVE Neighbors(_, _)
Neighbors(es, s) ==
  IF es = <<>> THEN <<>>
  ELSE IF Head(es).source = s
       THEN <<Head(es).target>> \o Neighbors(Tail(es), s)
       ELSE Neighbors(Tail(es), s)

\* inDegree after the edges.forEach: one increment per edge
RECURSIVE CountInDegree(_, _)
CountInDegree(es, deg) ==
  IF es = <<>> THEN deg
  ELSE CountInDegree(Tail(es),
         [deg EXCEPT ![Head(es).target] = deg[Head(es).target] + 1])

\* the keys of inDegree: node ids first, then edge targets not yet present
InDegreeKeys(ns, es) ==
  MapKeys(MapKeys(<<>>, NodeIds(ns)), [i \in 1..Len(es) |-> es[i].target])

\* the test passing one decrement early
BecomesReadyAtOne(newDegree) == newDegree = 1
\* the test that enqueues a neighbour after its decrement
BecomesReady(newDegree) == newDegree = 0

\* neighbors.forEach of the while loop: decrement, enqueue on reaching 0
RECURSIVE Relax(_, _, _)
Relax(nbrs, deg, queue) ==
  IF nbrs = <<>> THEN [deg |-> deg, queue |-> queue]
  ELSE LET n == Head(nbrs)
           newDegree == deg[n] - 1
       IN Relax(Tail(nbrs), [deg EXCEPT ![n] = newDegree],
                IF BecomesReady(newDegree) THEN Append(queue, n) ELSE queue)

\* the while (queue.length > 0) loop
RECURSIVE Kahn(_, _, _, _)
Kahn(es, deg, queue, result) ==
  IF queue = <<>> THEN result
  ELSE LET current == Head(queue)
           r == Relax(Neighbors(es, current), deg, Tail(queue))
       IN Kahn(es, r.deg, r.queue, Append(result, current))

\* the seeding test with an off-by-one bound
HasNoIncomingOrOne(degree) == degree <= 1
\* the test of inDegree.forEach that seeds the queue: if (degree === 0)
HasNoIncoming(degree) == degree = 0

\* the keys of inDegree as they were inserted, the sorting loop left out
validateExecutionOrderUnsorted(ns, es) == InDegreeKeys(ns, es)
validateExecutionOrder(ns, es) ==
  LET deg == CountInDegree(es, [i \in Ids |-> 0])
      queue == SelectSeq(InDegreeKeys(ns, es), LAMBDA k : HasNoIncoming(deg[k]))
  IN Kahn(es, deg, queue, <<>>)

\* ----------------------------------------------------------- detectCycles
\* path.indexOf(x): the first position of x in path
IndexOf(path, x) ==
  CHOOSE i \in 1..Len(path) : path[i] = x /\ \A j \in 1..(i - 1) : path[j] # x

\* a back edge found and not recorded
PushNothing(st, path, neighbor) == st
\* the whole path pushed: cycles.push([...path, neighbor])
PushPath(st, path, neighbor) ==
  [st EXCEPT !.cycles = Append(@, path \o <<neighbor>>)]
\* cycles.push([...path.slice(cycleStart), neighbor])
PushCycle(st, path, neighbor) ==
  [st EXCEPT !.cycles =
     Append(@, SubSeq(path, IndexOf(path, neighbor), Len(path)) \o <<neighbor>>)]

\* dfs(nodeId, path) and its for (const neighbor of neighbors) loop; st holds
\* the closure's visited, recursionStack and cycles; path is the caller's copy
RECURSIVE Dfs(_, _, _, _)
RECURSIVE DfsNeighbors(_, _, _, _)
DfsNeighbors(es, nbrs, path, st) ==
  IF nbrs = <<>> THEN st
  ELSE LET neighbor == Head(nbrs)
       IN DfsNeighbors(es, Tail(nbrs), path,
            IF neighbor \notin st.visited THEN Dfs(es, neighbor, path, st)
            ELSE IF neighbor \in st.recursionStack THEN PushCycle(st, path, neighbor)
            ELSE st)

Dfs(es, nodeId, path, st) ==
  LET entered == [st EXCEPT !.visited = @ \cup {nodeId},
                            !.recursionStack = @ \cup {nodeId}]
      done == DfsNeighbors(es, Neighbors(es, nodeId), Append(path, nodeId), entered)
  IN [done EXCEPT !.recursionStack = @ \ {nodeId}]

\* nodes.forEach(node => { if (!visited.has(node.id)) dfs(node.id, []) })
RECURSIVE DfsRoots(_, _, _)
DfsRoots(es, ids, st) ==
  IF ids = <<>> THEN st
  ELSE DfsRoots(es, Tail(ids),
         IF Head(ids) \notin st.visited THEN Dfs(es, Head(ids), <<>>, st) ELSE st)

detectCycles(ns, es) ==
  DfsRoots(es, NodeIds(ns), [visited |-> {}, recursionStack |-> {}, cycles |-> <<>>]).cycles

\* --------------------------------------------------------------- validators
\* an optional numeric field: <<>> when absent, <<v>> when set to v
Absent == <<>>
Some(v) == <<v>>

\* JavaScript truthiness of an optional number: undefined and 0 are falsy
TruthyNumber(x) == x # Absent /\ x[1] # 0

\* one entry of errors / warnings: the text, and the id (or index) it names
Msg(text, subject) == [text |-> text, subject |-> subject]

\* `${node.id || index}`: a missing id is 0; forEach indexes start at 0
IdOrIndex(id, i) == IF id # 0 THEN id ELSE i - 1

\* config.maxTokens && config.maxTokens < 1
MaxTokensInvalid(x) == TruthyNumber(x) /\ x[1] < 1

\* config.temperature && (config.temperature < 0 || config.temperature > 1)
TemperatureInvalid(x) == TruthyNumber(x) /\ (x[1] < 0 \/ x[1] > 1)

\* the sequence of the messages whose condition holds, in the order given
RECURSIVE Pushed(_)
Pushed(checks) ==
  IF checks = <<>> THEN <<>>
  ELSE (IF Head(checks)[1] THEN <<Head(checks)[2]>> ELSE <<>>) \o Pushed(Tail(checks))

\* validateNodeConfig: what it pushes to errors
ConfigErrors(node) ==
  LET c == node.config
      id == node.id
  IN CASE node.type = "database" ->
            Pushed(<< <<c.type = "", Msg("Database node is missing database type", id)>>,
                      <<~c.host, Msg("Database node is missing host", id)>> >>)
       [] node.type = "ai" ->
            Pushed(<< <<~c.model, Msg("AI node is missing model specification", id)>>,
                      <<~c.prompt, Msg("AI node is missing prompt", id)>>,
                      <<TemperatureInvalid(c.temperature),
                        Msg("AI node has invalid temperature (must be between 0 and 1)", id)>>,
                      <<MaxTokensInvalid(c.maxTokens),
                        Msg("AI node has invalid maxTokens (must be positive)", id)>> >>)
       [] node.type = "transform" ->
            Pushed(<< <<~c.operation, Msg("Transform node is missing operation type", id)>>,
                      <<~c.script, Msg("Transform node is missing script", id)>> >>)
       [] node.type = "output" ->
            Pushed(<< <<c.type = "", Msg("Output node is missing output type", id)>>,
                      <<c.type = "webhook" /\ ~c.webhookUrl,
                        Msg("Output node webhook is missing URL", id)>>,
                      <<c.type = "slack" /\ ~c.slackWebhook,
                        Msg("Output node slack is missing webhook URL", id)>>,
                      <<c.type = "email" /\ ~c.emailTo,
                        Msg("Output node email is missing recipients", id)>> >>)
       [] OTHER -> <<>>

\* validateNodeConfig: what it pushes to warnings
ConfigWarnings(node) ==
  LET c == node.config
      id == node.id
  IN IF node.type = "database"
     THEN Pushed(<< <<~c.database, Msg("Database node is missing database name", id)>>,
                    <<~c.username, Msg("Database node is missing username", id)>>,
                    <<~c.password, Msg("Database node is missing password", id)>> >>)
     ELSE <<>>

\* one iteration of nodes.forEach in validateWorkflowNodes: the errors pushed
NodeErrors(node, i) ==
  LET subject == IdOrIndex(node.id, i)
  IN Pushed(<< <<node.id = 0, Msg("Node at index is missing required 'id' field", i - 1)>>,
               <<node.type = "", Msg("Node is missing required 'type' field", subject)>>,
               <<node.type # "" /\ node.type \notin RegisteredTypes,
                 Msg("Node has invalid type", subject)>>,
               <<~node.hasData, Msg("Node is missing required 'data' field", subject)>> >>)
     \o (IF node.hasData /\ node.hasConfig THEN ConfigErrors(node) ELSE <<>>)
     \o Pushed(<< <<~node.position, Msg("Node has invalid position data", subject)>> >>)

\* one iteration of nodes.forEach in validateWorkflowNodes: the warnings pushed
NodeWarnings(node, i) ==
  IF ~node.hasData THEN <<>>
  ELSE Pushed(<< <<~node.label, Msg("Node is missing a label", node.id)>>,
                 <<~node.hasConfig, Msg("Node has no configuration", node.id)>> >>)
       \o (IF node.hasConfig THEN ConfigWarnings(node) ELSE <<>>)

\* what the iterations of a forEach pushed, one after the other
RECURSIVE Flatten(_)
Flatten(ss) == IF ss = <<>> THEN <<>> ELSE Head(ss) \o Flatten(Tail(ss))

\* duplicateIds kept as an array: one entry for every repetition of an id
DuplicateIdsPerRepetition(ns) ==
  SelectSeq([i \in 1..Len(ns) |->
               IF ns[i].id # 0 /\ \E j \in 1..(i - 1) : ns[j].id = ns[i].id
               THEN ns[i].id ELSE 0],
            LAMBDA x : x # 0)
\* duplicateIds after the forEach: the ids met again, in the order of their
\* first repetition (a Set keeps one entry per id)
DuplicateIds(ns) ==
  MapKeys(<<>>, SelectSeq([i \in 1..Len(ns) |->
                            IF ns[i].id # 0 /\ \E j \in 1..(i - 1) : ns[j].id = ns[i].id
                            THEN ns[i].id ELSE 0],
                         LAMBDA x : x # 0))

\* isValid computed from both lists
NoErrorsNoWarnings(errors, warnings) == Len(errors) = 0 /\ Len(warnings) = 0
\* isValid: errors.length === 0
IsValid(errors, warnings) == Len(errors) = 0

\* errors and warnings declared outside the function: each call pushes onto
\* the lists of the call before
ResultOntoPrevious(errors, warnings) ==
  [isValid |-> IsValid(validation.errors \o errors, validation.warnings \o warnings),
   errors |-> validation.errors \o errors, warnings |-> validation.warnings \o warnings]
\* const errors: string[] = [], const warnings: string[] = [] .. return
Result(errors, warnings) ==
  [isValid |-> IsValid(errors, warnings), errors |-> errors, warnings |-> warnings]

validateWorkflowNodes(ns) ==
  Result(Flatten([i \in 1..Len(ns) |-> NodeErrors(ns[i], i)])
           \o [k \in 1..Len(DuplicateIds(ns)) |->
                 Msg("Duplicate node ID found", DuplicateIds(ns)[k])],
         Flatten([i \in 1..Len(ns) |-> NodeWarnings(ns[i], i)]))

\* the self-reference test reached only for endpoints that are steps
SelfReferencingStep(edge, nodeIds) == edge.source = edge.target /\ edge.source \in nodeIds
\* if (edge.source === edge.target)
SelfReferencing(edge, nodeIds) == edge.source = edge.target

\* edgeIds with the edgeIds.add(edge.id) left out
EdgeIdsNeverAdded(es, i) == {}
\* edgeIds at iteration i of edges.forEach: the ids of the edges before
\* position i (a missing id, 0, is never added)
EdgeIdsSeen(es, i) == {es[j].id : j \in 1..(i - 1)} \ {0}

\* one iteration of edges.forEach in validateWorkflowEdges
EdgeErrors(edge, i, es, ns) ==
  LET nodeIds == Range(NodeIds(ns))
      edgeIds == EdgeIdsSeen(es, i)
      subject == IdOrIndex(edge.id, i)
  IN Pushed(<< <<edge.id = 0, Msg("Edge at index is missing required 'id' field", i - 1)>>,
               <<edge.id # 0 /\ edge.id \in edgeIds, Msg("Duplicate edge ID found", edge.id)>>,
               <<edge.source = 0, Msg("Edge is missing required 'source' field", subject)>>,
               <<edge.source # 0 /\ edge.source \notin nodeIds,
                 Msg("Edge references non-existent source node", subject)>>,
               <<edge.target = 0, Msg("Edge is missing required 'target' field", subject)>>,
               <<edge.target # 0 /\ edge.target \notin nodeIds,
                 Msg("Edge references non-existent target node", subject)>>,
               <<SelfReferencing(edge, nodeIds),
                 Msg("Edge is self-referencing (source and target are the same)", subject)>> >>)

\* the warnings of validateWorkflowEdges: disconnected nodes, then cycles
EdgeWarnings(es, ns) ==
  LET connectedNodes == UNION {{es[j].source, es[j].target} : j \in 1..Len(es)}
      found == detectCycles(ns, es)
  IN Flatten([i \in 1..Len(ns) |->
                IF ns[i].id \notin connectedNodes
                THEN <<Msg("Node is not connected to any other nodes", ns[i].id)>>
                ELSE <<>>])
     \o (IF Len(found) > 0
         THEN <<Msg("Workflow contains cycle(s)", Len(found))>> ELSE <<>>)

\* the cycle message pushed to errors instead of warnings
validateWorkflowEdgesStrict(es, ns) ==
  LET found == detectCycles(ns, es)
  IN Result(Flatten([i \in 1..Len(es) |-> EdgeErrors(es[i], i, es, ns)])
              \o (IF Len(found) > 0
                  THEN <<Msg("Workflow contains cycle(s)", Len(found))>> ELSE <<>>),
            EdgeWarnings(es, ns))
validateWorkflowEdges(es, ns) ==
  Result(Flatten([i \in 1..Len(es) |-> EdgeErrors(es[i], i, es, ns)]),
         EdgeWarnings(es, ns))

\* ------------------------------------------------------ payloads, records
\* JavaScript truthiness of a payload: null, undefined, 0, "" and false are falsy
Truthy(v) == v \notin {"null", "undefined", "zero"}

\* v || null
OrNull(v) == IF Truthy(v) THEN v ELSE "null"

EmptyMap == [k \in {} |-> "null"]

\* a value handed to a capability: a payload, or the combinedData object
Plain(v) == [combined |-> FALSE, value |-> v, entries |-> EmptyMap]
Combined(m) == [combined |-> TRUE, value |-> "object", entries |-> m]

NoExecution == [status |-> "none", error_message |-> NoMessage, output_data |-> "undefined"]
NoRow == [status |-> "none", input_data |-> "null", error_message |-> NoMessage,
          output_data |-> "null"]
NoContext == [currentData |-> "null", nodeExecutions |-> EmptyMap]
NoNodeExecution == [row |-> 0, node_id |-> 0, node_type |-> "none", status |-> "none",
                    input_data |-> "null", output_data |-> "undefined",
                    error_message |-> NoMessage]
NoValidation == [isValid |-> TRUE, errors |-> <<>>, warnings |-> <<>>]
NoPending == [input |-> Plain("null"), output |-> "undefined", error |-> NoMessage]

\* nodes.find(n => n.id === nodeId): index of the first match, 0 for undefined
FindNode(ns, id) ==
  IF \E i \in 1..Len(ns) : ns[i].id = id
  THEN CHOOSE i \in 1..Len(ns) : ns[i].id = id /\ \A j \in 1..(i - 1) : ns[j].id # id
  ELSE 0

\* --------------------------------------------------------- getNodeInputData
\* context.edges.filter(edge => edge.target === node.id)
PredecessorEdges(es, id) == SelectSeq(es, LAMBDA e : e.target = id)

\* the output looked up in the node_executions table by step id, whatever the run
RecordedOutputOfAnyRun(ctx, id) ==
  IF \E k \in 1..Len(node_executions) :
       node_executions[k].node_id = id /\ node_executions[k].status = "success"
  THEN node_executions[CHOOSE k \in 1..Len(node_executions) :
         /\ node_executions[k].node_id = id /\ node_executions[k].status = "success"
         /\ \A j \in 1..Len(node_executions) :
              (node_executions[j].node_id = id /\ node_executions[j].status = "success")
                => j <= k].output_data
  ELSE "undefined"
\* predecessorExecution?.output_data
RecordedOutput(ctx, id) ==
  IF id \in DOMAIN ctx.nodeExecutions THEN ctx.nodeExecutions[id].output_data
  ELSE "undefined"

\* the for (const edge of predecessorEdges) loop filling combinedData
RECURSIVE CombineOutputs(_, _, _)
CombineOutputs(pes, ctx, acc) ==
  IF pes = <<>> THEN acc
  ELSE LET src == Head(pes).source
           out == RecordedOutput(ctx, src)
       IN CombineOutputs(Tail(pes), ctx,
            IF Truthy(out)
            THEN [k \in (DOMAIN acc) \cup {src} |-> IF k = src THEN out ELSE acc[k]]
            ELSE acc)

getNodeInputData(id, ctx, es) ==
  LET predecessorEdges == PredecessorEdges(es, id)
  IN IF Len(predecessorEdges) = 0 THEN Plain(ctx.currentData)
     ELSE IF Len(predecessorEdges) = 1
          THEN Plain(OrNull(RecordedOutput(ctx, predecessorEdges[1].source)))
          ELSE Combined(CombineOutputs(predecessorEdges, ctx, EmptyMap))

\* ----------------------------------------------------------------- tables
\* the same UPDATE with a WHERE clause that matches no row
UpdateNodeRowNoMatch(table, row, status, output, message) == table
\* UPDATE node_executions SET status = .., output_data = .. WHERE id = $4
UpdateNodeRow(table, row, status, output, message) ==
  [table EXCEPT ![row] = [@ EXCEPT !.status = status, !.output_data = output,
                                   !.error_message = message]]

\* the same UPDATE without AND status = 'running'
CancelRowUnconditional(row) ==
  IF row.status = "none" THEN row ELSE [row EXCEPT !.status = "cancelled"]
\* UPDATE workflow_executions SET status = 'cancelled' WHERE id = $1 AND status = 'running'
CancelRow(row) ==
  IF row.status = "running" THEN [row EXCEPT !.status = "cancelled"] ELSE row

\* ---------------------------------------------------------- executeWorkflow
\* the loop leaving out the last id of executionOrder
LoopHeadStopsEarly(order, i, ns, ctx) ==
  IF i >= Len(order)
  THEN [pc |-> "updateCompleted", nodeExecution |-> NoNodeExecution, error |-> NoMessage]
  ELSE IF FindNode(ns, order[i]) = 0
       THEN [pc |-> "updateError", nodeExecution |-> NoNodeExecution,
             error |-> NotFoundMessage(order[i])]
       ELSE LET node == ns[FindNode(ns, order[i])]
            IN [pc |-> "insertNodeExecution",
                nodeExecution |-> [NoNodeExecution EXCEPT
                                     !.node_id = node.id, !.node_type = node.type,
                                     !.status = "running",
                                     !.input_data = ctx.currentData],
                error |-> NoMessage]
\* top of one iteration of for (const nodeId of executionOrder), up to the
\* first await of executeNode; past the last iteration, up to the UPDATE
LoopHead(order, i, ns, ctx) ==
  IF i > Len(order)
  THEN [pc |-> "updateCompleted", nodeExecution |-> NoNodeExecution, error |-> NoMessage]
  ELSE IF FindNode(ns, order[i]) = 0
       THEN [pc |-> "updateError", nodeExecution |-> NoNodeExecution,
             error |-> NotFoundMessage(order[i])]
       ELSE LET node == ns[FindNode(ns, order[i])]
            IN [pc |-> "insertNodeExecution",
                nodeExecution |-> [NoNodeExecution EXCEPT
                                     !.node_id = node.id, !.node_type = node.type,
                                     !.status = "running",
                                     !.input_data = ctx.currentData],
                error |-> NoMessage]

\* the call: synchronous code up to the INSERT of the execution record
ExecuteWorkflow(r) ==
  /\ pc[r] = "start"
  /\ execution' = [execution EXCEPT ![r] = [NoExecution EXCEPT !.status = "running"]]
  /\ pc' = [pc EXCEPT ![r] = "insertExecution"]
  /\ UNCHANGED <<nodes, edges, schedResult, cycles, validation, inputData, executionOrder, idx, context,
                 nodeExecution, pending, workflow_executions, node_executions,
                 delivered, cancelPc, cancelResponse>>

\* INSERT INTO workflow_executions, then scheduling and the first loop head
InsertExecution(r) ==
  /\ pc[r] = "insertExecution"
  /\ workflow_executions' =
       [workflow_executions EXCEPT ![r] =
          [NoRow EXCEPT !.status = "running", !.input_data = inputData[r]]]
  /\ LET order == validateExecutionOrder(nodes, edges)
         ctx == [currentData |-> OrNull(inputData[r]), nodeExecutions |-> EmptyMap]
         head == LoopHead(order, 1, nodes, ctx)
     IN /\ executionOrder' = [executionOrder EXCEPT ![r] = order]
        /\ IF Len(order) # Len(nodes)
           THEN /\ pc' = [pc EXCEPT ![r] = "updateError"]
                /\ pending' = [pending EXCEPT ![r].error = CyclesMessage]
                /\ UNCHANGED <<context, idx, nodeExecution>>
           ELSE /\ context' = [context EXCEPT ![r] = ctx]
                /\ idx' = [idx EXCEPT ![r] = 1]
                /\ pc' = [pc EXCEPT ![r] = head.pc]
                /\ nodeExecution' = [nodeExecution EXCEPT ![r] = head.nodeExecution]
                /\ pending' = [pending EXCEPT ![r].error = head.error]
  /\ UNCHANGED <<nodes, edges, schedResult, cycles, validation, inputData, execution, node_executions,
                 delivered, cancelPc, cancelResponse>>

\* -------------------------------------------------------------- executeNode
\* INSERT INTO node_executions, getNodeInputData, the dispatch switch
InsertNodeExecution(r) ==
  /\ pc[r] = "insertNodeExecution"
  /\ LET ne == nodeExecution[r]
         input == getNodeInputData(ne.node_id, context[r], edges)
     IN /\ node_executions' = Append(node_executions,
              [workflow_execution_id |-> r, node_id |-> ne.node_id,
               node_type |-> ne.node_type, status |-> ne.status,
               input_data |-> ne.input_data, output_data |-> "null",
               error_message |-> NoMessage])
        /\ nodeExecution' = [nodeExecution EXCEPT ![r].row = Len(node_executions) + 1]
        /\ IF ne.node_type \in RegisteredTypes
           THEN /\ pc' = [pc EXCEPT ![r] = "capability"]
                /\ pending' = [pending EXCEPT ![r].input = input]
                /\ delivered' = Append(delivered,
                     [run |-> r, node_id |-> ne.node_id, input |-> input])
           ELSE /\ pc' = [pc EXCEPT ![r] = "updateNodeError"]
                /\ pending' = [pending EXCEPT ![r].input = input,
                                              ![r].error = UnknownTypeMessage(ne.node_id)]
                /\ UNCHANGED delivered
  /\ UNCHANGED <<nodes, edges, schedResult, cycles, validation, inputData, execution, executionOrder, idx,
                 context, workflow_executions, cancelPc, cancelResponse>>

\* the awaited capability call resolves with outputData
CapabilityResolves(r, out) ==
  /\ pc[r] = "capability"
  /\ pending' = [pending EXCEPT ![r].output = out]
  /\ pc' = [pc EXCEPT ![r] = "updateNodeSuccess"]
  /\ UNCHANGED <<nodes, edges, schedResult, cycles, validation, inputData, execution, executionOrder, idx,
                 context, nodeExecution, workflow_executions, node_executions,
                 delivered, cancelPc, cancelResponse>>

\* the awaited capability call rejects
CapabilityRejects(r) ==
  /\ pc[r] = "capability"
  /\ pending' = [pending EXCEPT ![r].error = CapabilityMessage(nodeExecution[r].node_id)]
  /\ pc' = [pc EXCEPT ![r] = "updateNodeError"]
  /\ UNCHANGED <<nodes, edges, schedResult, cycles, validation, inputData, execution, executionOrder, idx,
                 context, nodeExecution, workflow_executions, node_executions,
                 delivered, cancelPc, cancelResponse>>

\* UPDATE node_executions .. 'success', the context updates, the next loop head
UpdateNodeSuccess(r) ==
  /\ pc[r] = "updateNodeSuccess"
  /\ LET out == pending[r].output
         ne == [nodeExecution[r] EXCEPT !.status = "success", !.output_data = out]
         ctx == [currentData |-> out,
                 nodeExecutions |->
                   [k \in (DOMAIN context[r].nodeExecutions) \cup {ne.node_id} |->
                      IF k = ne.node_id THEN ne ELSE context[r].nodeExecutions[k]]]
         head == LoopHead(executionOrder[r], idx[r] + 1, nodes, ctx)
     IN /\ node_executions' = UpdateNodeRow(node_executions, ne.row, "success", out, NoMessage)
        /\ context' = [context EXCEPT ![r] = ctx]
        /\ idx' = [idx EXCEPT ![r] = idx[r] + 1]
        /\ pc' = [pc EXCEPT ![r] = head.pc]
        /\ nodeExecution' = [nodeExecution EXCEPT ![r] = head.nodeExecution]
        /\ pending' = [pending EXCEPT ![r].error = head.error]
  /\ UNCHANGED <<nodes, edges, schedResult, cycles, validation, inputData, execution, executionOrder,
                 workflow_executions, delivered, cancelPc, cancelResponse>>

\* what the catch block of executeNode does with the error once recorded
AfterNodeErrorSwallowed(r, ctx) ==
  LET head == LoopHead(executionOrder[r], idx[r] + 1, nodes, ctx)
  IN [pc |-> head.pc, nodeExecution |-> head.nodeExecution, error |-> head.error,
      idx |-> idx[r] + 1]
\* throw error: out of the loop, into the catch block of executeWorkflow
AfterNodeError(r, ctx) ==
  [pc |-> "updateError", nodeExecution |-> NoNodeExecution, error |-> pending[r].error,
   idx |-> idx[r]]

\* UPDATE node_executions .. 'error', the context update, the rethrow
UpdateNodeError(r) ==
  /\ pc[r] = "updateNodeError"
  /\ LET msg == pending[r].error
         ne == [nodeExecution[r] EXCEPT !.status = "error", !.error_message = msg]
         ctx == [context[r] EXCEPT !.nodeExecutions =
                   [k \in (DOMAIN context[r].nodeExecutions) \cup {ne.node_id} |->
                      IF k = ne.node_id THEN ne ELSE context[r].nodeExecutions[k]]]
         after == AfterNodeError(r, ctx)
     IN /\ node_executions' =
             UpdateNodeRow(node_executions, ne.row, "error", "null", msg)
        /\ context' = [context EXCEPT ![r] = ctx]
        /\ pc' = [pc EXCEPT ![r] = after.pc]
        /\ nodeExecution' = [nodeExecution EXCEPT ![r] = after.nodeExecution]
        /\ pending' = [pending EXCEPT ![r].error = after.error]
        /\ idx' = [idx EXCEPT ![r] = after.idx]
  /\ UNCHANGED <<nodes, edges, schedResult, cycles, validation, inputData, execution, executionOrder,
                 workflow_executions, delivered, cancelPc, cancelResponse>>

\* the UPDATE alone: the returned object keeps the status it was created with
UpdateCompletedRowOnly(r) ==
  /\ pc[r] = "updateCompleted"
  /\ workflow_executions' = [workflow_executions EXCEPT ![r].status = "completed"]
  /\ pc' = [pc EXCEPT ![r] = "returned"]
  /\ UNCHANGED <<nodes, edges, schedResult, cycles, validation, inputData, execution, executionOrder, idx,
                 context, nodeExecution, pending, node_executions, delivered, cancelPc,
                 cancelResponse>>
\* UPDATE workflow_executions SET status = 'completed' .. WHERE id = $3; return
UpdateCompleted(r) ==
  /\ pc[r] = "updateCompleted"
  /\ workflow_executions' = [workflow_executions EXCEPT ![r].status = "completed"]
  /\ execution' = [execution EXCEPT ![r].status = "completed"]
  /\ pc' = [pc EXCEPT ![r] = "returned"]
  /\ UNCHANGED <<nodes, edges, schedResult, cycles, validation, inputData, executionOrder, idx, context,
                 nodeExecution, pending, node_executions, delivered, cancelPc,
                 cancelResponse>>

\* the catch block setting the status only
UpdateErrorStatusOnly(r) ==
  /\ pc[r] = "updateError"
  /\ workflow_executions' = [workflow_executions EXCEPT ![r].status = "error"]
  /\ execution' = [execution EXCEPT ![r].status = "error"]
  /\ pc' = [pc EXCEPT ![r] = "returned"]
  /\ UNCHANGED <<nodes, edges, schedResult, cycles, validation, inputData, executionOrder, idx, context,
                 nodeExecution, pending, node_executions, delivered, cancelPc,
                 cancelResponse>>
\* UPDATE workflow_executions SET status = 'error', error_message = .. ; return
UpdateError(r) ==
  /\ pc[r] = "updateError"
  /\ workflow_executions' = [workflow_executions EXCEPT
                               ![r].status = "error",
                               ![r].error_message = pending[r].error]
  /\ execution' = [execution EXCEPT ![r].status = "error",
                                    ![r].error_message = pending[r].error]
  /\ pc' = [pc EXCEPT ![r] = "returned"]
  /\ UNCHANGED <<nodes, edges, schedResult, cycles, validation, inputData, executionOrder, idx, context,
                 nodeExecution, pending, node_executions, delivered, cancelPc,
                 cancelResponse>>

\* ---------------------------------------------------------- cancelExecution
\* POST /api/execution/:id/cancel up to its second await: getExecutionStatus
\* (SELECT * FROM workflow_executions WHERE id = $1) and the two early exits
CancelEndpointCheck(r) ==
  /\ pc[r] # "none"
  /\ cancelPc[r] = "idle"
  /\ IF workflow_executions[r].status = "none"
     THEN /\ cancelResponse' = [cancelResponse EXCEPT ![r] = "notFound"]
          /\ UNCHANGED cancelPc
     ELSE IF workflow_executions[r].status # "running"
          THEN /\ cancelResponse' = [cancelResponse EXCEPT ![r] = "cannotCancel"]
               /\ UNCHANGED cancelPc
          ELSE /\ cancelPc' = [cancelPc EXCEPT ![r] = "update"]
               /\ cancelResponse' = [cancelResponse EXCEPT ![r] = "none"]
  /\ UNCHANGED <<nodes, edges, schedResult, cycles, validation, inputData, pc, execution, executionOrder,
                 idx, context, nodeExecution, pending, workflow_executions,
                 node_executions, delivered>>

\* WorkflowExecutionService.cancelExecution: its UPDATE takes effect, then the
\* handler answers
CancelEndpointUpdate(r) ==
  /\ cancelPc[r] = "update"
  /\ workflow_executions' =
       [workflow_executions EXCEPT ![r] = CancelRow(workflow_executions[r])]
  /\ cancelPc' = [cancelPc EXCEPT ![r] = "idle"]
  /\ cancelResponse' = [cancelResponse EXCEPT ![r] = "cancelled"]
  /\ UNCHANGED <<nodes, edges, schedResult, cycles, validation, inputData, pc, execution, executionOrder,
                 idx, context, nodeExecution, pending, node_executions, delivered>>

\* ------------------------------------------------------------ specifications
EdgeSet == [source : Ids, target : Ids]

\* no run invoked, no table row
Idle ==
  /\ schedResult = <<>>
  /\ cycles = <<>>
  /\ validation = NoValidation
  /\ execution = [r \in Runs |-> NoExecution]
  /\ executionOrder = [r \in Runs |-> <<>>]
  /\ idx = [r \in Runs |-> 0]
  /\ context = [r \in Runs |-> NoContext]
  /\ nodeExecution = [r \in Runs |-> NoNodeExecution]
  /\ pending = [r \in Runs |-> NoPending]
  /\ workflow_executions = [r \in Runs |-> NoRow]
  /\ node_executions = <<>>
  /\ delivered = <<>>
  /\ cancelPc = [r \in Runs |-> "idle"]
  /\ cancelResponse = [r \in Runs |-> "none"]

\* one run of a workflow of up to MaxNodes steps with distinct ids 1..n, any
\* edge list over Ids (an id beyond n is a reference to a step that is not there)
Init ==
  /\ \E n \in 0..MaxNodes :
       nodes \in {ns \in [1..n -> [id : 1..n, type : TypeChoices]] :
                    \A i \in 1..n : ns[i].id = i}
  /\ edges \in SeqsUpTo(EdgeSet, MaxEdges)
  /\ inputData \in [Runs -> InputValues]
  /\ pc = [r \in Runs |-> IF r = 1 THEN "start" ELSE "none"]
  /\ Idle

Next ==
  \E r \in Runs :
    \/ ExecuteWorkflow(r)
    \/ InsertExecution(r)
    \/ InsertNodeExecution(r)
    \/ \E out \in OutputValues : CapabilityResolves(r, out)
    \/ CapabilityRejects(r)
    \/ UpdateNodeSuccess(r)
    \/ UpdateNodeError(r)
    \/ UpdateCompleted(r)
    \/ UpdateError(r)
    \/ CancelEndpointCheck(r)
    \/ CancelEndpointUpdate(r)

Spec == Init /\ [][Next]_vars

\* a direct call of validateExecutionOrder on steps 1..n and any edge list over
\* Ids (every list of distinct ids is this one up to the names of the ids)
SchedInit ==
  /\ \E n \in 0..MaxNodes :
       nodes \in {ns \in [1..n -> [id : 1..n, type : TypeChoices]] :
                    \A i \in 1..n : ns[i].id = i}
  /\ edges \in SeqsUpTo(EdgeSet, MaxSchedEdges)
  /\ inputData \in [Runs -> InputValues]
  /\ pc = [r \in Runs |-> "none"]
  /\ Idle

CallValidateExecutionOrder ==
  /\ pc[1] = "none"
  /\ pc' = [pc EXCEPT ![1] = "scheduled"]
  /\ schedResult' = validateExecutionOrder(nodes, edges)
  /\ UNCHANGED <<nodes, edges, cycles, validation, inputData, execution,
                 executionOrder, idx, context, nodeExecution, pending,
                 workflow_executions, node_executions, delivered, cancelPc,
                 cancelResponse>>

SchedNext == CallValidateExecutionOrder

SchedSpec == SchedInit /\ [][SchedNext]_vars

\* one run of a stored workflow whose steps may have a type outside the four
\* of the dispatch switch; edges over the ids 1..MaxRunNodes
RunInit ==
  /\ \E n \in 0..MaxRunNodes :
       nodes \in {ns \in [1..n -> [id : 1..n, type : StoredTypes]] :
                    \A i \in 1..n : ns[i].id = i}
  /\ edges \in SeqsUpTo([source : 1..MaxRunNodes, target : 1..MaxRunNodes], MaxRunEdges)
  /\ inputData \in [Runs -> InputValues]
  /\ pc = [r \in Runs |-> IF r = 1 THEN "start" ELSE "none"]
  /\ Idle

\* the resumptions of executeWorkflow / executeNode of run r
RunStep(r) ==
  \/ ExecuteWorkflow(r)
  \/ InsertExecution(r)
  \/ InsertNodeExecution(r)
  \/ \E out \in OutputValues : CapabilityResolves(r, out)
  \/ CapabilityRejects(r)
  \/ UpdateNodeSuccess(r)
  \/ UpdateNodeError(r)
  \/ UpdateCompleted(r)
  \/ UpdateError(r)

RunNext == \E r \in Runs : RunStep(r)

RunSpec == RunInit /\ [][RunNext]_vars

\* the positions of a run: not invoked, the awaits of executeWorkflow and
\* executeNode, returned
Positions ==
  {"none", "start", "insertExecution", "insertNodeExecution", "capability",
   "updateNodeSuccess", "updateNodeError", "updateCompleted", "updateError", "returned"}

\* run r is suspended inside the call and is resumed: RunStep(r) is enabled
\* exactly at the positions other than none and returned, and the steps of
\* RunStep(r) are the steps that change pc[r]
Resumed(r) ==
  /\ pc[r] \notin {"none", "returned"}
  /\ pc' \in [Runs -> Positions]
  /\ pc'[r] # pc[r]

\* every awaited statement and every capability call eventually settles: a
\* run that stays suspended inside the call is eventually resumed
FairRunSpec == RunSpec /\ \A r \in Runs : WF_pc(Resumed(r))

\* direct calls of detectCycles and validateExecutionOrder on the same graph:
\* steps 1..n, any edge list over Ids of up to MaxCycleEdges edges
CycleInit ==
  /\ \E n \in 0..MaxNodes :
       nodes \in {ns \in [1..n -> [id : 1..n, type : TypeChoices]] :
                    \A i \in 1..n : ns[i].id = i}
  /\ edges \in SeqsUpTo(EdgeSet, MaxCycleEdges)
  /\ inputData \in [Runs -> InputValues]
  /\ pc = [r \in Runs |-> "none"]
  /\ Idle

CallDetectCycles ==
  /\ pc[2] = "none"
  /\ pc' = [pc EXCEPT ![2] = "detected"]
  /\ cycles' = detectCycles(nodes, edges)
  /\ UNCHANGED <<nodes, edges, schedResult, validation, inputData, execution,
                 executionOrder, idx, context, nodeExecution, pending,
                 workflow_executions, node_executions, delivered, cancelPc,
                 cancelResponse>>

CycleNext == CallDetectCycles \/ CallValidateExecutionOrder

CycleSpec == CycleInit /\ [][CycleNext]_vars

\* ---------------------------------------------------- validator inputs
\* a config object with every field any of the four checks reads set and valid
FullConfig ==
  [type |-> "webhook", host |-> TRUE, database |-> TRUE, username |-> TRUE,
   password |-> TRUE, model |-> TRUE, prompt |-> TRUE, temperature |-> Absent,
   maxTokens |-> Absent, operation |-> TRUE, script |-> TRUE, webhookUrl |-> TRUE,
   slackWebhook |-> TRUE, emailTo |-> TRUE]

\* a step that passes validateWorkflowNodes without errors or warnings;
\* position, label and the config fields are TRUE when set (and well-typed)
ValidNode(i) ==
  [id |-> i, type |-> "transform", position |-> TRUE, hasData |-> TRUE,
   label |-> TRUE, hasConfig |-> TRUE, config |-> FullConfig]

\* values of config.temperature / config.maxTokens
ConfigNumbers == {Absent} \cup {Some(v) : v \in -1..2}

AiNodes ==
  {[ValidNode(1) EXCEPT !.type = "ai",
                        !.config = [FullConfig EXCEPT !.model = m, !.prompt = p,
                                                      !.temperature = t, !.maxTokens = k]] :
     m \in BOOLEAN, p \in BOOLEAN, t \in ConfigNumbers, k \in ConfigNumbers}

DatabaseNodes ==
  {[ValidNode(1) EXCEPT !.type = "database",
                        !.config = [FullConfig EXCEPT !.type = ty, !.host = h, !.database = d,
                                                      !.username = u, !.password = pw]] :
     ty \in {"", "postgresql"}, h \in BOOLEAN, d \in BOOLEAN, u \in BOOLEAN, pw \in BOOLEAN}

TransformNodes ==
  {[ValidNode(1) EXCEPT !.config = [FullConfig EXCEPT !.operation = o, !.script = sc]] :
     o \in BOOLEAN, sc \in BOOLEAN}

OutputNodes ==
  {[ValidNode(1) EXCEPT !.type = "output",
                        !.config = [FullConfig EXCEPT !.type = ty, !.webhookUrl = w,
                                                      !.slackWebhook = sl, !.emailTo = em]] :
     ty \in {"", "webhook", "slack", "email", "file"},
     w \in BOOLEAN, sl \in BOOLEAN, em \in BOOLEAN}

StructureNodes ==
  {[ValidNode(1) EXCEPT !.type = ty, !.position = po, !.hasData = da, !.label = la,
                        !.hasConfig = co] :
     ty \in {"", "trigger", "transform"},
     po \in BOOLEAN, da \in BOOLEAN, la \in BOOLEAN, co \in BOOLEAN}

\* step lists with missing and repeated ids, with and without labels
RepeatedIdLists ==
  SeqsUpTo({[ValidNode(i) EXCEPT !.label = la] : i \in 0..MaxValIds, la \in BOOLEAN},
           MaxValNodes)

\* edge lists with distinct ids and any endpoints (0: the field is missing)
EndpointLists ==
  UNION {{[i \in 1..k |-> [id |-> i, source |-> st[i][1], target |-> st[i][2]]] :
            st \in [1..k -> (0..MaxValSteps) \X (0..MaxValSteps)]} : k \in 0..MaxValEdges}

\* edge lists between steps 1 and 2 with any ids (0: the field is missing)
EdgeIdLists ==
  SeqsUpTo({[id |-> i, source |-> st[1], target |-> st[2]] :
              i \in 0..MaxValEdges, st \in {<<1, 2>>, <<2, 1>>}}, MaxValEdges)

\* the arguments of a validator call: a step list on its own, or valid
\* steps 1..n with an edge list
ValidationInit ==
  /\ \/ /\ nodes \in RepeatedIdLists \cup {<<node>> : node \in
                 AiNodes \cup DatabaseNodes \cup TransformNodes \cup OutputNodes
                   \cup StructureNodes}
        /\ edges = <<>>
     \/ /\ \E n \in 0..MaxValSteps : nodes = [i \in 1..n |-> ValidNode(i)]
        /\ edges \in EndpointLists \cup EdgeIdLists
  /\ inputData \in [Runs -> InputValues]
  /\ pc = [r \in Runs |-> "none"]
  /\ Idle

CallValidateWorkflowNodes ==
  /\ pc[1] = "none"
  /\ pc' = [pc EXCEPT ![1] = "nodesValidated"]
  /\ validation' = validateWorkflowNodes(nodes)
  /\ UNCHANGED <<nodes, edges, schedResult, cycles, inputData, execution,
                 executionOrder, idx, context, nodeExecution, pending,
                 workflow_executions, node_executions, delivered, cancelPc,
                 cancelResponse>>

CallValidateWorkflowEdges ==
  /\ pc[1] = "none"
  /\ pc' = [pc EXCEPT ![1] = "edgesValidated"]
  /\ validation' = validateWorkflowEdges(edges, nodes)
  /\ UNCHANGED <<nodes, edges, schedResult, cycles, inputData, execution,
                 executionOrder, idx, context, nodeExecution, pending,
                 workflow_executions, node_executions, delivered, cancelPc,
                 cancelResponse>>

\* POST /api/workflows with a name: both validations, then the INSERT (the
\* stored config is nodes and edges as submitted) or a validation error
CreateWorkflow ==
  /\ pc[1] = "none"
  /\ LET nodeValidation == validateWorkflowNodes(nodes)
         edgeValidation == validateWorkflowEdges(edges, nodes)
     IN IF ~nodeValidation.isValid
        THEN /\ validation' = nodeValidation
             /\ pc' = [pc EXCEPT ![1] = "rejected"]
        ELSE /\ validation' = edgeValidation
             /\ pc' = [pc EXCEPT ![1] = IF edgeValidation.isValid THEN "stored"
                                        ELSE "rejected"]
  /\ UNCHANGED <<nodes, edges, schedResult, cycles, inputData, execution,
                 executionOrder, idx, context, nodeExecution, pending,
                 workflow_executions, node_executions, delivered, cancelPc,
                 cancelResponse>>

ValidationNext ==
  \/ CallValidateWorkflowNodes
  \/ CallValidateWorkflowEdges
  \/ CreateWorkflow

ValidationSpec == ValidationInit /\ [][ValidationNext]_vars

\* ------------------------------------------------------------- properties
Edges == {<<edges[i].source, edges[i].target>> : i \in 1..Len(edges)}

RECURSIVE Closure(_, _)
Closure(R, n) ==
  IF n = 0 THEN R
  ELSE Closure(R \cup {<<a, c>> \in Ids \X Ids :
                         \E b \in Ids : <<a, b>> \in R /\ <<b, c>> \in R}, n - 1)

Acyclic == \A a \in Ids : <<a, a>> \notin Closure(Edges, MaxNodes)

StepIds == Range(NodeIds(nodes))

EndpointsAreSteps ==
  \A i \in 1..Len(edges) : edges[i].source \in StepIds /\ edges[i].target \in StepIds

Position(s, x) == CHOOSE i \in 1..Len(s) : s[i] = x

\* the rows of run r in node_executions, as indexes in insertion order
RowsOf(r) == {k \in 1..Len(node_executions) : node_executions[k].workflow_execution_id = r}

\* the row recorded for step id in run r
RowOfStep(r, id) == CHOOSE k \in RowsOf(r) : node_executions[k].node_id = id

Executed(r, id) == \E k \in RowsOf(r) : node_executions[k].node_id = id

PredecessorIds(id) == {edges[i].source : i \in {j \in 1..Len(edges) : edges[j].target = id}}

IncomingCount(id) == Cardinality({j \in 1..Len(edges) : edges[j].target = id})

Scheduled(r) == pc[r] \notin {"none", "start", "insertExecution"}

\* C1: for an acyclic edge list over steps with unique ids, all endpoints being
\* steps, validateExecutionOrder returns a permutation of the step ids in which
\* the source of every edge comes strictly before its target.
C1_TopologicalOrder ==
  (pc[1] = "scheduled" /\ IsInjective(NodeIds(nodes)) /\ EndpointsAreSteps /\ Acyclic)
    => /\ Len(schedResult) = Len(nodes)
       /\ Range(schedResult) = StepIds
       /\ \A i \in 1..Len(edges) :
            Position(schedResult, edges[i].source) < Position(schedResult, edges[i].target)

C1_Witness ==
  /\ pc[1] = "scheduled" /\ EndpointsAreSteps /\ Acyclic
  /\ Len(nodes) = 3 /\ Cardinality(Edges) >= 2
  /\ schedResult # NodeIds(nodes)

\* C2: when a step's capability fails, no StepExecution row of the run is
\* created after the failed step's row, and the run is returned with status
\* error and the failed step's message.
C2_FailFast ==
  \A k \in 1..Len(node_executions) :
    LET row == node_executions[k]
        r == row.workflow_execution_id
    IN (row.status = "error" /\ row.error_message = CapabilityMessage(row.node_id))
         => /\ \A j \in RowsOf(r) : j <= k
            /\ pc[r] = "returned"
                 => /\ execution[r].status = "error"
                    /\ execution[r].error_message = row.error_message

C2_Witness ==
  \E k \in 1..Len(node_executions) :
    LET row == node_executions[k]
        r == row.workflow_execution_id
    IN /\ row.status = "error" /\ row.error_message = CapabilityMessage(row.node_id)
       /\ pc[r] = "returned"
       /\ idx[r] > 1 /\ idx[r] < Len(executionOrder[r])

\* C3 (as claimed): whenever the computed order omits a step of the graph, the
\* run fails with the cycles message and no step executes (no StepExecution
\* row, no capability call).
C3_OmittedStepNothingRuns ==
  \A r \in Runs :
    (Scheduled(r) /\ \E i \in 1..Len(nodes) : nodes[i].id \notin Range(executionOrder[r]))
      => /\ RowsOf(r) = {}
         /\ \A k \in 1..Len(delivered) : delivered[k].run # r
         /\ pc[r] \in {"updateError", "returned"}
         /\ pc[r] = "returned" => /\ execution[r].status = "error"
                                  /\ execution[r].error_message = CyclesMessage

C6_EntryStepGetsRunInput ==
  \A r \in Runs :
    (pc[r] = "capability" /\ IncomingCount(nodeExecution[r].node_id) = 0)
      => pending[r].input = Plain(inputData[r])

\* C7 (as claimed): a run whose steps all completed is returned completed, its
\* output being the output of the last executed step.
C7_CompletedRunOutput ==
  \A r \in Runs :
    (pc[r] = "returned" /\ execution[r].status # "error" /\ RowsOf(r) # {})
      => /\ execution[r].status = "completed"
         /\ execution[r].output_data =
              node_executions[CHOOSE k \in RowsOf(r) : \A j \in RowsOf(r) : j <= k].output_data

\* C8: the UPDATE of cancelExecution sets the stored status to cancelled if the
\* row is running when it executes, and leaves any other row as it is.
C8_CancelOnlyRunning ==
  [][\A r \in Runs :
       (cancelPc[r] = "update" /\ cancelPc'[r] = "idle")
         => IF workflow_executions[r].status = "running"
            THEN workflow_executions'[r].status = "cancelled"
            ELSE workflow_executions'[r] = workflow_executions[r]]_vars

C8_Witness ==
  \E r \in Runs : workflow_executions[r].status = "cancelled" /\ cancelResponse[r] = "cancelled"

\* C9 (as claimed): once the stored status of a run is cancelled it stays cancelled.
C9_CancelledIsFinal ==
  [][\A r \in Runs : workflow_executions[r].status = "cancelled"
                       => workflow_executions'[r].status = "cancelled"]_vars

\* C10: of the StepExecution rows of one run only the one created last can be
\* running: a row is created only after every earlier row was finalized.
C10_Sequential ==
  \A i, j \in 1..Len(node_executions) :
    (i < j /\ node_executions[i].workflow_execution_id = node_executions[j].workflow_execution_id)
      => node_executions[i].status \in {"success", "error"}

C10_Witness ==
  /\ edges = <<>>
  /\ \E i, j \in 1..Len(node_executions) :
       /\ i < j
       /\ node_executions[i].workflow_execution_id = node_executions[j].workflow_execution_id
       /\ node_executions[j].status = "running"

\* C11: whenever a step is dispatched to its capability, every direct
\* predecessor of the step (the source of each edge targeting it) has a
\* StepExecution row of the same run with status success.
C11_PredecessorsSucceeded ==
  \A r \in Runs :
    pc[r] = "capability"
      => \A p \in PredecessorIds(nodeExecution[r].node_id) :
           \E k \in RowsOf(r) : /\ node_executions[k].node_id = p
                                /\ node_executions[k].status = "success"

C11_Witness ==
  \E r \in Runs :
    /\ pc[r] = "capability"
    /\ Cardinality(PredecessorIds(nodeExecution[r].node_id)) = 2
    /\ \A p \in PredecessorIds(nodeExecution[r].node_id) :
         \E k \in RowsOf(r) : /\ node_executions[k].node_id = p
                              /\ node_executions[k].status = "success"

\* C12: a workflow-level failure (order shorter or longer than the step list,
\* capability failure, unknown step type) is caught inside executeWorkflow: the
\* run goes through the catch block and is returned with status error and the
\* failure's message.
C12_FailureIsReturned ==
  \A r \in Runs :
    /\ pending[r].error # NoMessage => pc[r] \in {"updateNodeError", "updateError", "returned"}
    /\ pc[r] = "returned" =>
         /\ Len(executionOrder[r]) # Len(nodes)
              => /\ execution[r].status = "error"
                 /\ execution[r].error_message = CyclesMessage
         /\ \A k \in RowsOf(r) :
              node_executions[k].status = "error"
                => /\ execution[r].status = "error"
                   /\ execution[r].error_message = node_executions[k].error_message
                   /\ execution[r].error_message \in
                        {CapabilityMessage(node_executions[k].node_id),
                         UnknownTypeMessage(node_executions[k].node_id)}

C12_Witness ==
  \E r \in Runs :
    /\ pc[r] = "returned"
    /\ idx[r] = 2
    /\ execution[r].status = "error"
    /\ execution[r].error_message = UnknownTypeMessage(2)

\* C13: every invocation of executeWorkflow eventually returns, provided each
\* awaited statement and capability call settles; the returned record has
\* status completed or error; the status of the record only ever changes from
\* running to completed or from running to error.
C13_Terminates ==
  /\ \A r \in Runs :
       pc[r] = "start" ~> (pc[r] = "returned" /\ execution[r].status \in {"completed", "error"})
  /\ [][\A r \in Runs :
          execution'[r].status # execution[r].status
            => \/ execution[r].status = "none" /\ execution'[r].status = "running"
               \/ execution[r].status = "running"
                    /\ execution'[r].status \in {"completed", "error"}]_vars

C13_Witness ==
  \E r \in Runs :
    /\ pc[r] = "returned"
    /\ execution[r].status = "completed"
    /\ Cardinality(RowsOf(r)) = 2
    /\ edges # <<>>

\* the steps a, b, c are distinct and the edges a -> b, b -> c, c -> a exist
ThreeCycle(a, b, c) ==
  /\ {a, b, c} \subseteq StepIds
  /\ a # b /\ b # c /\ a # c
  /\ {<<a, b>>, <<b, c>>, <<c, a>>} \subseteq Edges

ErrorsWith(text) == SelectSeq(validation.errors, LAMBDA m : m.text = text)

\* how often id occurs as the id of a step
Occurrences(id) == Cardinality({i \in 1..Len(nodes) : nodes[i].id = id})

\* C15: the error list of validateWorkflowNodes holds exactly one 'Duplicate
\* node ID' message for each id that occurs more than once among the steps,
\* however often it is repeated, and none for an id that occurs once.
C15_OneMessagePerDuplicate ==
  pc[1] = "nodesValidated"
    => \A id \in 1..MaxValIds :
         Len(SelectSeq(ErrorsWith("Duplicate node ID found"), LAMBDA m : m.subject = id))
           = IF Occurrences(id) > 1 THEN 1 ELSE 0

C15_Witness ==
  /\ pc[1] = "nodesValidated"
  /\ Occurrences(1) = 3
  /\ Occurrences(2) = 1
  /\ Len(ErrorsWith("Duplicate node ID found")) = 1

\* C16: in every result of validateWorkflowNodes and validateWorkflowEdges
\* isValid is true exactly when the error list is empty, whatever the warnings.
C16_ValidIffNoErrors ==
  pc[1] \in {"nodesValidated", "edgesValidated"}
    => (validation.isValid <=> validation.errors = <<>>)

C16_Witness ==
  /\ pc[1] = "nodesValidated"
  /\ validation.isValid
  /\ Len(validation.warnings) >= 2
  /\ Len(nodes) >= 2

\* C17: every edge whose source equals its target gets a 'self-referencing'
\* error of validateWorkflowEdges, and the result is invalid, whatever the
\* steps and the other edges are.
C17_SelfLoopIsError ==
  pc[1] = "edgesValidated"
    => \A i \in 1..Len(edges) :
         edges[i].source = edges[i].target
           => /\ ~validation.isValid
              /\ Msg("Edge is self-referencing (source and target are the same)",
                     IdOrIndex(edges[i].id, i)) \in Range(validation.errors)

C17_Witness ==
  /\ pc[1] = "edgesValidated"
  /\ Len(edges) = 2
  /\ edges[2].source = edges[2].target
  /\ edges[2].source \in StepIds
  /\ Len(validation.errors) = 1

\* C18: validateWorkflowEdges returns isValid = true only if every edge has an
\* id that is set and shared with no other edge, its source and target are
\* ids of steps of the given list, and its source differs from its target.
C18_ValidOnlyIfInvariants ==
  (pc[1] = "edgesValidated" /\ validation.isValid)
    => \A i \in 1..Len(edges) :
         /\ edges[i].id # 0
         /\ \A j \in 1..Len(edges) : edges[j].id = edges[i].id => j = i
         /\ edges[i].source # 0 /\ edges[i].source \in StepIds
         /\ edges[i].target # 0 /\ edges[i].target \in StepIds
         /\ edges[i].source # edges[i].target

C18_Witness ==
  /\ pc[1] = "edgesValidated"
  /\ validation.isValid
  /\ Len(edges) = 2
  /\ edges[1] # edges[2]

\* the edge list satisfies every rule of validateWorkflowEdges and has a cycle
\* through two or more steps
OnlyDefectIsCycle ==
  /\ \A i \in 1..Len(edges) :
       /\ edges[i].id # 0
       /\ \A j \in 1..Len(edges) : edges[j].id = edges[i].id => j = i
       /\ edges[i].source \in StepIds \ {0}
       /\ edges[i].target \in StepIds \ {0}
       /\ edges[i].source # edges[i].target
  /\ ~Acyclic

\* C19: an edge list whose only defect is a cycle of length two or more passes
\* validateWorkflowEdges with a cycle warning and no error, and createWorkflow
\* stores the workflow.
C19_CycleIsWarningOnly ==
  OnlyDefectIsCycle
    => /\ pc[1] = "edgesValidated"
            => /\ validation.isValid
               /\ validation.errors = <<>>
               /\ \E k \in 1..Len(validation.warnings) :
                    validation.warnings[k].text = "Workflow contains cycle(s)"
       /\ pc[1] # "rejected"

C19_Witness ==
  /\ OnlyDefectIsCycle
  /\ pc[1] = "stored"
  /\ validation.warnings # <<>>

\* C20 (as claimed): for an ai step with a config, validateWorkflowNodes
\* reports an error whenever temperature is set and outside [0, 1], and
\* whenever maxTokens is set and below 1 (0 and negative values included).
C20_AiRangeErrors ==
  (pc[1] = "nodesValidated" /\ Len(nodes) = 1)
    => LET node == nodes[1]
           c == node.config
       IN (node.type = "ai" /\ node.hasData /\ node.hasConfig)
            => /\ (c.temperature # Absent /\ (c.temperature[1] < 0 \/ c.temperature[1] > 1))
                    => Msg("AI node has invalid temperature (must be between 0 and 1)", node.id)
                         \in Range(validation.errors)
               /\ (c.maxTokens # Absent /\ c.maxTokens[1] < 1)
                    => Msg("AI node has invalid maxTokens (must be positive)", node.id)
                         \in Range(validation.errors)

\* a step type outside the NodeType union
UnknownKind(t) == t \notin {"database", "ai", "transform", "output"}

\* C21: a step whose type is not one of the four cases of the dispatch switch
\* never reaches a capability; its StepExecution row is finalized with status
\* error and the 'Unknown node type' message, the run is returned with status
\* error and that same message, and no row of the run is created after it.
C21_UnknownTypeIsFatal ==
  \A k \in 1..Len(node_executions) :
    LET row == node_executions[k]
        r == row.workflow_execution_id
    IN UnknownKind(row.node_type)
         => /\ row.status \in {"running", "error"}
            /\ row.status = "running" => pc[r] = "updateNodeError"
            /\ row.status = "error" => row.error_message = UnknownTypeMessage(row.node_id)
            /\ \A j \in RowsOf(r) : j <= k
            /\ \A d \in 1..Len(delivered) :
                 delivered[d].run = r => delivered[d].node_id # row.node_id
            /\ pc[r] \in {"updateNodeError", "updateError", "returned"}
            /\ pc[r] = "returned"
                 => /\ row.status = "error"
                    /\ execution[r].status = "error"
                    /\ workflow_executions[r].status = "error"
                    /\ execution[r].error_message = row.error_message
                    /\ workflow_executions[r].error_message = row.error_message

C21_Witness ==
  \E k \in 1..Len(node_executions) :
    LET row == node_executions[k]
        r == row.workflow_execution_id
    IN /\ UnknownKind(row.node_type)
       /\ row.status = "error"
       /\ pc[r] = "returned"
       /\ k = 1
       /\ Len(executionOrder[r]) = 2
       /\ executionOrder[r][1] = row.node_id

\* C22 (as claimed): for every step handed to its capability, the input_data
\* stored in the step's StepExecution row is the value getNodeInputData
\* resolved and the capability received, for steps with no, one or several
\* incoming edges.
C22_StoredInputIsDelivered ==
  \A d \in 1..Len(delivered) :
    LET r == delivered[d].run
        id == delivered[d].node_id
    IN Executed(r, id)
         /\ Plain(node_executions[RowOfStep(r, id)].input_data) = delivered[d].input

\* every StepExecution row of run r is finalized
AllFinalized(r) == \A k \in RowsOf(r) : node_executions[k].status \in {"success", "error"}

\* C23: the writes of one run come in this order: the INSERT of the run's row
\* before any StepExecution row; per dispatched step one INSERT of a running
\* row, made when every earlier row of the run is finalized, and one UPDATE of
\* that row from running to success or error, after which the row never
\* changes; the UPDATE of the run's row to completed or error when no row of
\* the run is running, and no write of the run after it. Each resumption makes
\* one write at most, each dispatched step has exactly one row, and no row is
\* running once the stored status of the run is completed or error.
C23_WriteOrder ==
  /\ [](\A d \in 1..Len(delivered) :
          Cardinality({k \in RowsOf(delivered[d].run) :
                         node_executions[k].node_id = delivered[d].node_id}) = 1)
  /\ [][\A r \in Runs :
          LET before == workflow_executions[r].status
              after == workflow_executions'[r].status
              n == Len(node_executions)
          IN /\ workflow_executions'[r] # workflow_executions[r]
                  => /\ node_executions' = node_executions
                     /\ \/ before = "none" /\ after = "running" /\ RowsOf(r) = {}
                        \/ before = "running" /\ after \in {"completed", "error"}
                             /\ AllFinalized(r)
             /\ before \in {"completed", "error"}
                  => /\ workflow_executions'[r] = workflow_executions[r]
                     /\ node_executions' = node_executions
             /\ after \in {"completed", "error"} => AllFinalized(r)'
             /\ Len(node_executions') >= n
             /\ Len(node_executions') > n
                  => /\ Len(node_executions') = n + 1
                     /\ SubSeq(node_executions', 1, n) = node_executions
                     /\ node_executions'[n + 1].status = "running"
                     /\ node_executions'[n + 1].workflow_execution_id = r
                          => before = "running" /\ AllFinalized(r)
             /\ \A k \in RowsOf(r) :
                  node_executions'[k] # node_executions[k]
                    => /\ node_executions[k].status = "running"
                       /\ node_executions'[k].status \in {"success", "error"}
                       /\ \A j \in 1..Len(node_executions') :
                            j # k => /\ j <= n
                                     /\ node_executions'[j] = node_executions[j]]_vars

C23_Witness ==
  \E r \in Runs :
    /\ workflow_executions[r].status = "error"
    /\ Cardinality(RowsOf(r)) = 2
    /\ \E k \in RowsOf(r) : node_executions[k].status = "success"
    /\ \E k \in RowsOf(r) : node_executions[k].status = "error"

\* step lists for repeated calls: one step of any of the config families, or
\* up to MaxValSteps steps with missing and repeated ids
RevalidatedNodeLists ==
  {<<node>> : node \in AiNodes \cup DatabaseNodes \cup TransformNodes \cup OutputNodes
                         \cup StructureNodes}
    \cup SeqsUpTo({[ValidNode(i) EXCEPT !.label = la] : i \in 0..MaxValIds, la \in BOOLEAN},
                  MaxValSteps)

\* the arguments of two successive validator calls
RevalidationInit ==
  /\ \/ /\ nodes \in RevalidatedNodeLists
        /\ edges = <<>>
     \/ /\ \E n \in 0..MaxValSteps : nodes = [i \in 1..n |-> ValidNode(i)]
        /\ edges \in EndpointLists \cup EdgeIdLists
  /\ inputData \in [Runs -> InputValues]
  /\ pc = [r \in Runs |-> "none"]
  /\ Idle

\* a second call of validateWorkflowNodes with the same argument
CallValidateWorkflowNodesAgain ==
  /\ pc[1] = "nodesValidated"
  /\ pc' = [pc EXCEPT ![1] = "nodesValidatedAgain"]
  /\ validation' = validateWorkflowNodes(nodes)
  /\ UNCHANGED <<nodes, edges, schedResult, cycles, inputData, execution,
                 executionOrder, idx, context, nodeExecution, pending,
                 workflow_executions, node_executions, delivered, cancelPc,
                 cancelResponse>>

\* a second call of validateWorkflowEdges with the same arguments
CallValidateWorkflowEdgesAgain ==
  /\ pc[1] = "edgesValidated"
  /\ pc' = [pc EXCEPT ![1] = "edgesValidatedAgain"]
  /\ validation' = validateWorkflowEdges(edges, nodes)
  /\ UNCHANGED <<nodes, edges, schedResult, cycles, inputData, execution,
                 executionOrder, idx, context, nodeExecution, pending,
                 workflow_executions, node_executions, delivered, cancelPc,
                 cancelResponse>>

RevalidationNext ==
  \/ CallValidateWorkflowNodes
  \/ CallValidateWorkflowEdges
  \/ CallValidateWorkflowNodesAgain
  \/ CallValidateWorkflowEdgesAgain

RevalidationSpec == RevalidationInit /\ [][RevalidationNext]_vars

EdgesInto(v) == {j \in 1..Len(edges) : edges[j].target = v}

\* when step v of the returned order became ready, as a pair compared
\* lexicographically: a step without incoming edges at the seeding, by its
\* place in the step list; any other step when the predecessor popped last
\* was popped, at the last edge from that predecessor to v in the edge list
ReadyAt(v) ==
  IF EdgesInto(v) = {}
  THEN <<0, CHOOSE i \in 1..Len(nodes) : nodes[i].id = v>>
  ELSE LET p == CHOOSE q \in 1..Len(schedResult) :
                  /\ schedResult[q] \in PredecessorIds(v)
                  /\ \A u \in PredecessorIds(v) \cap Range(schedResult) :
                       Position(schedResult, u) <= q
           e == CHOOSE j \in EdgesInto(v) :
                  /\ edges[j].source = schedResult[p]
                  /\ \A i \in EdgesInto(v) : edges[i].source = schedResult[p] => i <= j
       IN <<p, e>>

Earlier(a, b) == a[1] < b[1] \/ (a[1] = b[1] /\ a[2] < b[2])

\* C25: for steps with unique ids and edges between steps, the order returned
\* by validateExecutionOrder lists no step twice; it holds a step exactly when
\* all sources of its incoming edges are in it at earlier positions (parallel
\* edges neither block nor duplicate a step); the steps without incoming edges
\* come first, in step-list order; and the steps appear in the order in which
\* their in-degree reached 0, successors being visited in edge-list order.
C25_FifoKahnOrder ==
  (pc[1] = "scheduled" /\ IsInjective(NodeIds(nodes)) /\ EndpointsAreSteps)
    => /\ IsInjective(schedResult)
       /\ Range(schedResult) \subseteq StepIds
       /\ \A i \in 1..Len(schedResult) :
            \A u \in PredecessorIds(schedResult[i]) :
              \E q \in 1..(i - 1) : schedResult[q] = u
       /\ \A v \in StepIds :
            PredecessorIds(v) \subseteq Range(schedResult) \ {v} => v \in Range(schedResult)
       /\ LET sources == SelectSeq(NodeIds(nodes), LAMBDA v : EdgesInto(v) = {})
          IN SubSeq(schedResult, 1, Len(sources)) = sources
       /\ \A i, j \in 1..Len(schedResult) :
            i < j => Earlier(ReadyAt(schedResult[i]), ReadyAt(schedResult[j]))

C25_Witness ==
  /\ pc[1] = "scheduled"
  /\ Len(nodes) = 3
  /\ edges = <<[source |-> 1, target |-> 2], [source |-> 1, target |-> 3],
               [source |-> 1, target |-> 2]>>
  /\ schedResult = <<1, 3, 2>>

\* two concurrent calls of executeWorkflow on one stored workflow: each call
\* has its own input, and the capabilities answer each call with its own value
RunInput(r) == IF r = 1 THEN "request" ELSE "upload"
RunOutput(r) == IF r = 1 THEN "rows" ELSE "reply"

TwoRunInit ==
  /\ \E n \in 0..MaxRunNodes :
       nodes \in {ns \in [1..n -> [id : 1..n, type : TypeChoices]] :
                    \A i \in 1..n : ns[i].id = i}
  /\ edges \in SeqsUpTo([source : 1..MaxRunNodes, target : 1..MaxRunNodes], MaxRunEdges)
  /\ inputData = [r \in Runs |-> RunInput(r)]
  /\ pc = [r \in Runs |-> "start"]
  /\ Idle

\* the resumptions of the two calls, interleaved at their awaits
TwoRunNext ==
  \E r \in Runs :
    \/ ExecuteWorkflow(r)
    \/ InsertExecution(r)
    \/ InsertNodeExecution(r)
    \/ CapabilityResolves(r, RunOutput(r))
    \/ CapabilityRejects(r)
    \/ UpdateNodeSuccess(r)
    \/ UpdateNodeError(r)
    \/ UpdateCompleted(r)
    \/ UpdateError(r)

TwoRunSpec == TwoRunInit /\ [][TwoRunNext]_vars

\* the output run r recorded for step p before its row k was created
OwnOutput(r, p, k) ==
  IF \E j \in RowsOf(r) : j < k /\ node_executions[j].node_id = p
  THEN node_executions[CHOOSE j \in RowsOf(r) : j < k /\ node_executions[j].node_id = p].output_data
  ELSE "undefined"

\* the data run r carried when its row k was created: the output of its own
\* previous step, or its own input
OwnCarried(r, k) ==
  IF \E j \in RowsOf(r) : j < k
  THEN node_executions[CHOOSE j \in RowsOf(r) : j < k /\ \A i \in RowsOf(r) : i < k => i <= j].output_data
  ELSE OrNull(inputData[r])

\* the input of step id of run r, from the input and the rows of run r alone
OwnInput(r, id, k) ==
  IF IncomingCount(id) = 0 THEN Plain(OwnCarried(r, k))
  ELSE IF IncomingCount(id) = 1
       THEN Plain(OrNull(OwnOutput(r, CHOOSE p \in PredecessorIds(id) : TRUE, k)))
       ELSE Combined([p \in {q \in PredecessorIds(id) : Truthy(OwnOutput(r, q, k))}
                        |-> OwnOutput(r, p, k)])

GraphInit ==
  /\ \E n \in 0..MaxNodes :
       /\ nodes \in {ns \in [1..n -> [id : 1..n, type : TypeChoices]] :
                       \A i \in 1..n : ns[i].id = i}
       /\ edges \in SeqsUpTo([source : 1..n, target : 1..n], MaxSchedEdges)
  /\ inputData \in [Runs -> InputValues]
  /\ pc = [r \in Runs |-> "none"]
  /\ Idle

GraphNext == CallDetectCycles \/ CallValidateExecutionOrder

GraphSpec == GraphInit /\ [][GraphNext]_vars

\* C27: for steps with unique ids and edges whose endpoints are steps,
\* detectCycles returns a non-empty list exactly when validateExecutionOrder
\* returns fewer ids than there are steps, and both exactly when the graph
\* has a cycle.
C27_CycleChecksAgree ==
  (pc[1] = "scheduled" /\ pc[2] = "detected" /\ IsInjective(NodeIds(nodes))
     /\ EndpointsAreSteps)
    => /\ cycles # <<>> <=> Len(schedResult) < Len(nodes)
       /\ cycles # <<>> <=> ~Acyclic
       /\ Len(schedResult) <= Len(nodes)

C27_Witness ==
  /\ pc[1] = "scheduled" /\ pc[2] = "detected"
  /\ edges = <<[source |-> 1, target |-> 2], [source |-> 2, target |-> 3],
               [source |-> 3, target |-> 2]>>
  /\ cycles = << <<2, 3, 2>> >>
  /\ schedResult = <<1>>

\* C28: every sequence in the list returned by detectCycles is a cycle of the
\* graph: it has two ids or more, its first and last id are equal, each
\* consecutive pair is the source and target of an edge, and the ids before
\* the last are pairwise distinct.
C28_CyclesAreGenuine ==
  pc[2] = "detected"
    => \A c \in 1..Len(cycles) :
         LET cycle == cycles[c]
         IN /\ Len(cycle) >= 2
            /\ cycle[1] = cycle[Len(cycle)]
            /\ \A i \in 1..(Len(cycle) - 1) : <<cycle[i], cycle[i + 1]>> \in Edges
            /\ IsInjective(SubSeq(cycle, 1, Len(cycle) - 1))

C28_Witness ==
  /\ pc[2] = "detected"
  /\ Len(nodes) = 3
  /\ Len(cycles) = 2
  /\ cycles[1] # cycles[2]
  /\ cycles[1][1] # 1

\* C29 (as claimed): the cancel endpoint answers 'Execution cancelled
\* successfully' only when its UPDATE changed the stored status of the run
\* from running to cancelled, also when the run was completed or failed
\* between the endpoint's status check and its UPDATE.
C29_CancelAnswerIsTrue ==
  [][\A r \in Runs :
       (cancelPc[r] = "update" /\ cancelResponse'[r] = "cancelled")
         => /\ workflow_executions[r].status = "running"
            /\ workflow_executions'[r].status = "cancelled"]_vars

\* the k-th StepExecution row of run r in creation order
NthRow(r, k) == CHOOSE j \in RowsOf(r) : Cardinality({i \in RowsOf(r) : i <= j}) = k

\* C30: when executeWorkflow returns a run with status completed, the run has
\* as many StepExecution rows as the graph has steps; the k-th row created is
\* the row of the k-th id validateExecutionOrder returned; every row has
\* status success; every step of the graph has exactly one row.
C30_CompletedRunExecutedAll ==
  \A r \in Runs :
    (pc[r] = "returned" /\ execution[r].status = "completed")
      => /\ executionOrder[r] = validateExecutionOrder(nodes, edges)
         /\ Cardinality(RowsOf(r)) = Len(nodes)
         /\ Len(executionOrder[r]) = Len(nodes)
         /\ \A k \in 1..Len(nodes) :
              /\ node_executions[NthRow(r, k)].node_id = executionOrder[r][k]
              /\ node_executions[NthRow(r, k)].status = "success"
              /\ Cardinality({j \in RowsOf(r) : node_executions[j].node_id = nodes[k].id}) = 1
         /\ workflow_executions[r].status = "completed"

C30_Witness ==
  \E r \in Runs :
    /\ pc[r] = "returned" /\ execution[r].status = "completed"
    /\ edges = <<[source |-> 2, target |-> 1]>>
    /\ Cardinality(RowsOf(r)) = 2
    /\ node_executions[NthRow(r, 1)].node_id = 2

====
